---- MODULE Spec2Model ----
(***************************************************************************)
(* A model of the flash-todo application.                                  *)
(*                                                                         *)
(* The repository holds two programs over a "todos" table:                 *)
(*   - app.py: Flask routes issuing raw SQL (variant "app");               *)
(*   - app_new.py + services.py + models.py + utils.py: Flask routes over  *)
(*     TodoService and the SQLAlchemy model Todo (variant "service");      *)
(* and the pure helpers of utils.py (DataUtils.filter_todos, sort_todos)   *)
(* together with the SQL query of TodoService.get_all_todos.               *)
(*                                                                         *)
(* Spec      : the table under the CRUD handlers of both programs.         *)
(* SpecFilter: one call of filter_todos on a drawn list of tasks.           *)
(* SpecSort  : one call of sort_todos on a drawn list of tasks.             *)
(* SpecList  : one call of get_all_todos on a drawn table.                  *)
(* SpecCalc  : one call of calculate_stats on a drawn list of tasks.        *)
(* SpecStats : the handlers of Spec, then one statistics request.           *)
(* SpecCompleted: the calls of SpecFilter that filter on completed alone.   *)
(* SpecBulk  : the handlers of Spec, then one bulk_update or bulk_delete.    *)
(* SpecToggle: toggle requests of app_basic.py / app_simple.py on one task,  *)
(*             each a read and a later write, interleaved.                  *)
(* SpecCategory: create_category and update_category calls on the categories *)
(*             table, each a check and a later commit, interleaved.         *)
(* SpecAlias : one call of filter_todos or sort_todos, then the caller      *)
(*             empties the list it got back.                                *)
(***************************************************************************)
EXTENDS Integers, Sequences, FiniteSets, TLC

VARIABLES
    variant,    \* which program runs: "app" (app.py), "service" (services.py),
                \* "basic" (app_basic.py) or "simple" (app_simple.py)
    todos,      \* the todos table: id -> row
    seq,        \* sqlite_sequence of the AUTOINCREMENT table of app.py
    issued,     \* history: the largest id any INSERT has been given so far
    now,        \* the clock read by datetime.utcnow() / CURRENT_TIMESTAMP
    last,       \* the last handler that ran and its outcome
    coll,       \* the list handed to DataUtils / the rows a query reads;
                \* under SpecCategory the categories table
    req,        \* the last query or bulk request (operation and arguments);
                \* under SpecToggle and SpecCategory the requests in flight
    res         \* the last query result

vars == <<variant, todos, seq, issued, now, last, coll, req, res>>

storeVars == <<variant, todos, seq, issued, last>>
queryVars == <<coll, req, res>>

------------------------------------------------------------------------------
(* Bounds of the model *)

MaxTime == 1        \* the clock runs over 0..MaxTime
MaxId == 2          \* ids an INSERT may hand out, and so rows the table holds

------------------------------------------------------------------------------
(* Values *)

\* A nullable DateTime column holding no value.
NULL == -1

Times == 0..MaxTime
Ids == 1..MaxId

\* Text is modelled by what strip() and len() read of it: the number of
\* leading whitespace characters, the length of the part from the first to the
\* last non-whitespace character (0 for empty or whitespace-only text), and the
\* number of trailing whitespace characters.
Str(lead, core, trail) == [lead |-> lead, core |-> core, trail |-> trail]

len(s) == s.lead + s.core + s.trail

strip(s) == Str(0, s.core, 0)

\* Python truthiness of a str: non-empty.
truthy(s) == len(s) > 0

MaxContentLen == 500
MinContentLen == 2

ContentInputs ==
    { Str(0, 0, 0),                     \* ''
      Str(2, 0, 0),                     \* '  '
      Str(1, 1, 1),                     \* ' a '
      Str(1, MinContentLen, 0),         \* ' ab'
      Str(1, MaxContentLen, 1),         \* 500 characters between blanks
      Str(0, MaxContentLen + 1, 0) }    \* 501 characters

valid_priorities == {"low", "medium", "high"}

\* The priority a request carries: a valid one, one outside the enumeration,
\* or none (has = FALSE), for which every handler takes 'medium'.
PriorityInputs == {"high", "urgent"}

\* A request's form or JSON body is a dict; a key is present (has) with a
\* value v, or absent.
Arg(v) == [has |-> TRUE, v |-> v]

ContentArgs == {[has |-> FALSE, v |-> Str(0, 0, 0)]} \cup {Arg(c) : c \in ContentInputs}

PriorityArgs == {[has |-> FALSE, v |-> "medium"]} \cup {Arg(p) : p \in PriorityInputs}

Data == [content : ContentArgs, priority : PriorityArgs]

\* dict.get(key, default)
get(arg, default) == IF arg.has THEN arg.v ELSE default

------------------------------------------------------------------------------
(* utils.py: ValidationUtils *)

validate_todo_content(content) ==
    IF ~truthy(content) \/ ~truthy(strip(content))
    THEN [valid |-> FALSE, content |-> content]
    ELSE IF len(strip(content)) > MaxContentLen
    THEN [valid |-> FALSE, content |-> content]
    ELSE IF len(strip(content)) < MinContentLen
    THEN [valid |-> FALSE, content |-> content]
    ELSE [valid |-> TRUE, content |-> strip(content)]

validate_priority_FallsBackToMedium(priority) ==
    IF priority \notin valid_priorities
    THEN [valid |-> TRUE, priority |-> "medium"]
    ELSE [valid |-> TRUE, priority |-> priority]

validate_priority(priority) ==
    IF priority \notin valid_priorities
    THEN [valid |-> FALSE, priority |-> priority]
    ELSE [valid |-> TRUE, priority |-> priority]

------------------------------------------------------------------------------
(* models.py: Todo *)

\* A freshly inserted row: completed and completed_at take the column
\* defaults, created_at the clock at insertion.
NewTodo(content, priority, t) ==
    [content |-> content, priority |-> priority, completed |-> FALSE,
     created_at |-> t, completed_at |-> NULL]

mark_completed(todo, t) ==
    [todo EXCEPT !.completed = TRUE, !.completed_at = t]

mark_incomplete_KeepsStamp(todo) ==
    [todo EXCEPT !.completed = FALSE]

mark_incomplete(todo) ==
    [todo EXCEPT !.completed = FALSE, !.completed_at = NULL]

------------------------------------------------------------------------------
(* The table *)

Max(S) == CHOOSE x \in S : \A y \in S : y <= x

\* INTEGER PRIMARY KEY AUTOINCREMENT (app.py): one more than the largest id
\* ever handed out, which sqlite_sequence remembers across deletions.
AutoincrementId == seq + 1

\* db.Column(db.Integer, primary_key=True) (models.py) is an INTEGER PRIMARY
\* KEY without AUTOINCREMENT: SQLite hands out one more than the largest id
\* present in the table, 1 for an empty table.
RowidId == IF DOMAIN todos = {} THEN 1 ELSE Max(DOMAIN todos) + 1

Insert(id, row) == [i \in DOMAIN todos \cup {id} |-> IF i = id THEN row ELSE todos[i]]

Delete_Cascades(id) == [i \in {j \in DOMAIN todos : j < id} |-> todos[i]]

Delete(id) == [i \in DOMAIN todos \ {id} |-> todos[i]]

Done(op, ok) == last' = [op |-> op, ok |-> ok]

------------------------------------------------------------------------------
(* app.py: the raw-SQL routes *)

\* POST /
AppIndexPost(form) ==
    /\ variant = "app"
    /\ LET content == strip(get(form.content, Str(0, 0, 0)))
           priority == get(form.priority, "medium")
       IN  IF truthy(content)
           THEN /\ AutoincrementId <= MaxId
                /\ todos' = Insert(AutoincrementId, NewTodo(content, priority, now))
                /\ seq' = AutoincrementId
                /\ issued' = AutoincrementId
                /\ Done("index", TRUE)
           ELSE /\ UNCHANGED <<todos, seq, issued>>
                /\ Done("index", FALSE)
    /\ UNCHANGED <<variant, now, queryVars>>

\* GET /complete/<id>: an UPDATE ... WHERE id = ?, which touches no row when
\* the id is not stored.
AppComplete(todo_id) ==
    /\ variant = "app"
    /\ todos' = [i \in DOMAIN todos |->
                    IF i = todo_id THEN mark_completed(todos[i], now) ELSE todos[i]]
    /\ Done("complete", TRUE)
    /\ UNCHANGED <<variant, seq, issued, now, queryVars>>

\* GET /uncomplete/<id>
AppUncomplete(todo_id) ==
    /\ variant = "app"
    /\ todos' = [i \in DOMAIN todos |->
                    IF i = todo_id THEN mark_incomplete(todos[i]) ELSE todos[i]]
    /\ Done("uncomplete", TRUE)
    /\ UNCHANGED <<variant, seq, issued, now, queryVars>>

\* GET /delete/<id>
AppDelete(todo_id) ==
    /\ variant = "app"
    /\ todos' = Delete(todo_id)
    /\ Done("delete", TRUE)
    /\ UNCHANGED <<variant, seq, issued, now, queryVars>>

\* The row UPDATE todos SET content = ?, priority = ? leaves.
AppEditedRow(todo, content, priority, t) ==
    [todo EXCEPT !.content = content, !.priority = priority]

\* POST /edit/<id>
AppEditPost(todo_id, form) ==
    /\ variant = "app"
    /\ LET content == strip(get(form.content, Str(0, 0, 0)))
           priority == get(form.priority, "medium")
       IN  IF truthy(content)
           THEN /\ todos' = [i \in DOMAIN todos |->
                                IF i = todo_id
                                THEN AppEditedRow(todos[i], content, priority, now)
                                ELSE todos[i]]
                /\ Done("edit", TRUE)
           ELSE /\ UNCHANGED todos
                /\ Done("edit", FALSE)
    /\ UNCHANGED <<variant, seq, issued, now, queryVars>>

------------------------------------------------------------------------------
(* services.py: TodoService *)

create_todo(data) ==
    /\ variant = "service"
    /\ LET content_validation == validate_todo_content(get(data.content, Str(0, 0, 0)))
           priority_validation == validate_priority(get(data.priority, "medium"))
       IN  IF content_validation.valid /\ priority_validation.valid
           THEN /\ RowidId <= MaxId
                /\ todos' = Insert(RowidId, NewTodo(content_validation.content,
                                                    priority_validation.priority, now))
                /\ issued' = IF RowidId > issued THEN RowidId ELSE issued
                /\ Done("create_todo", TRUE)
           ELSE \* ValueError: the session is rolled back
                /\ UNCHANGED <<todos, issued>>
                /\ Done("create_todo", FALSE)
    /\ UNCHANGED <<variant, seq, now, queryVars>>

\* The row update_todo commits when every supplied field validates: each key
\* present in data replaces its column, the others are left alone.
UpdatedTodo_Restamps(todo, data, t) ==
    [todo EXCEPT !.content = IF data.content.has THEN strip(data.content.v) ELSE @,
                 !.priority = IF data.priority.has THEN data.priority.v ELSE @,
                 !.created_at = t]

UpdatedTodo(todo, data, t) ==
    [todo EXCEPT !.content = IF data.content.has
                             THEN validate_todo_content(data.content.v).content ELSE @,
                 !.priority = IF data.priority.has
                              THEN validate_priority(data.priority.v).priority ELSE @]

\* The Todo object in the session when update_todo leaves its try block:
\* content is validated and assigned first, then priority; the first field
\* that fails validation raises ValueError with the earlier ones assigned.
AssignedTodo(todo, data, t) ==
    IF data.content.has /\ ~validate_todo_content(data.content.v).valid
    THEN [raised |-> TRUE, todo |-> todo]
    ELSE LET with_content ==
                 IF data.content.has
                 THEN [todo EXCEPT !.content = validate_todo_content(data.content.v).content]
                 ELSE todo
         IN  IF data.priority.has /\ ~validate_priority(data.priority.v).valid
             THEN [raised |-> TRUE, todo |-> with_content]
             ELSE [raised |-> FALSE, todo |-> UpdatedTodo(todo, data, t)]

\* db.session.commit(): the session's object is written to its row.
session_commit(table, todo_id, todo) == [table EXCEPT ![todo_id] = todo]

session_rollback_KeepsAssigned(table, todo_id, todo) == [table EXCEPT ![todo_id] = todo]

\* db.session.rollback(): the pending assignments are discarded.
session_rollback(table, todo_id, todo) == table

get_todo_by_id_OrLatest(todo_id) ==
    IF todo_id \in DOMAIN todos THEN todo_id
    ELSE IF DOMAIN todos # {} THEN Max(DOMAIN todos) ELSE NULL

\* Todo.query.get(todo_id): the row of that id (named by its id), or None.
get_todo_by_id(todo_id) == IF todo_id \in DOMAIN todos THEN todo_id ELSE NULL

update_todo(todo_id, data) ==
    /\ variant = "service"
    /\ LET found == get_todo_by_id(todo_id)
       IN  IF found = NULL
           THEN /\ UNCHANGED todos
                /\ Done("update_todo", FALSE)
           ELSE LET session == AssignedTodo(todos[found], data, now)
                IN  IF session.raised
                    THEN /\ todos' = session_rollback(todos, found, session.todo)
                         /\ Done("update_todo", FALSE)
                    ELSE /\ todos' = session_commit(todos, found, session.todo)
                         /\ Done("update_todo", TRUE)
    /\ UNCHANGED <<variant, seq, issued, now, queryVars>>

delete_todo(todo_id) ==
    /\ variant = "service"
    /\ LET found == get_todo_by_id(todo_id)
       IN  IF found # NULL
           THEN /\ todos' = Delete(found)
                /\ Done("delete_todo", TRUE)
           ELSE /\ UNCHANGED todos
                /\ Done("delete_todo", FALSE)
    /\ UNCHANGED <<variant, seq, issued, now, queryVars>>

service_mark_completed(todo_id) ==
    /\ variant = "service"
    /\ LET found == get_todo_by_id(todo_id)
       IN  IF found # NULL
           THEN /\ todos' = [todos EXCEPT ![found] = mark_completed(@, now)]
                /\ Done("mark_completed", TRUE)
           ELSE /\ UNCHANGED todos
                /\ Done("mark_completed", FALSE)
    /\ UNCHANGED <<variant, seq, issued, now, queryVars>>

service_mark_incomplete(todo_id) ==
    /\ variant = "service"
    /\ LET found == get_todo_by_id(todo_id)
       IN  IF found # NULL
           THEN /\ todos' = [todos EXCEPT ![found] = mark_incomplete(@)]
                /\ Done("mark_incomplete", TRUE)
           ELSE /\ UNCHANGED todos
                /\ Done("mark_incomplete", FALSE)
    /\ UNCHANGED <<variant, seq, issued, now, queryVars>>

------------------------------------------------------------------------------
(* The clock *)

Tick ==
    /\ now < MaxTime
    /\ now' = now + 1
    /\ UNCHANGED <<storeVars, queryVars>>

------------------------------------------------------------------------------
(* Spec: the table under the handlers *)

NoRequest == [op |-> "none"]

Init ==
    /\ variant \in {"app", "service"}
    /\ todos = [i \in {} |-> NewTodo(Str(0, MinContentLen, 0), "medium", 0)]
    /\ seq = 0
    /\ issued = 0
    /\ now = 0
    /\ last = [op |-> "init", ok |-> TRUE]
    /\ coll = <<>>
    /\ req = NoRequest
    /\ res = <<>>

Next ==
    \/ Tick
    \/ \E form \in Data : AppIndexPost(form)
    \/ \E id \in Ids : AppComplete(id)
    \/ \E id \in Ids : AppUncomplete(id)
    \/ \E id \in Ids : AppDelete(id)
    \/ \E id \in Ids, form \in Data : AppEditPost(id, form)
    \/ \E data \in Data : create_todo(data)
    \/ \E id \in Ids, data \in Data : update_todo(id, data)
    \/ \E id \in Ids : delete_todo(id)
    \/ \E id \in Ids : service_mark_completed(id)
    \/ \E id \in Ids : service_mark_incomplete(id)

Spec == Init /\ [][Next]_vars

------------------------------------------------------------------------------
(* Todo objects as DataUtils and the list query read them *)

\* models.py: tags is a Text column. create_todo stores json.dumps(list), or
\* None for no tags; create_sample_data stores ','.join(list). The text is
\* modelled by how it was written (fmt) and the labels it was written from.
NoTags == [fmt |-> "null", items |-> <<>>]

\* services.py: json.dumps(data.get('tags', [])) if data.get('tags') else None
json_dumps(items) == [fmt |-> "json", items |-> items]

ServiceTags(items) == IF items # <<>> THEN json_dumps(items) ELSE NoTags

\* migrations.py: tags=','.join(todo_data['tags']), every sample holding a tag
SampleTags(items) == [fmt |-> "csv", items |-> items]

\* Python truthiness of the column value: None and '' are false.
TagsTruthy(text) == text.fmt # "null" /\ ~(text.fmt = "csv" /\ text.items = <<>>)

\* json.loads: the list back from a JSON text; JSONDecodeError on the
\* comma-joined labels, which are no JSON document.
json_loads(text) ==
    IF text.fmt = "json"
    THEN [ok |-> TRUE, value |-> text.items]
    ELSE [ok |-> FALSE, value |-> <<>>]

Range(seqn) == {seqn[i] : i \in DOMAIN seqn}

\* DateTimeUtils.parse_datetime: a date string is modelled by the format it is
\* written in and the instant it names. The six accepted formats are the
\* dash and the slash ones; anything else (and the empty string) gives None.
DateStr(fmt, t) == [fmt |-> fmt, t |-> t]

parse_datetime(date_str) ==
    IF date_str.fmt = "empty" THEN NULL
    ELSE IF date_str.fmt \in {"%Y-%m-%d", "%Y/%m/%d"} THEN date_str.t
    ELSE NULL

is_overdue_CountsCompleted(todo, t) ==
    IF todo.due_date # NULL THEN t > todo.due_date ELSE FALSE

\* Todo.is_overdue
is_overdue(todo, t) ==
    IF todo.due_date # NULL /\ ~todo.completed THEN t > todo.due_date ELSE FALSE

------------------------------------------------------------------------------
(* utils.py: DataUtils.filter_todos *)

Absent(v) == [has |-> FALSE, v |-> v]

\* What a call hands back: the list, or the exception that left it.
Returned(value) == [raised |-> FALSE, value |-> value]
Raised == [raised |-> TRUE, value |-> <<>>]

\* One pass of the tag loop:
\*   [t for t in filtered_todos if t.tags and tag in json.loads(t.tags)]
TagPass(filtered_todos, tag) ==
    IF \E i \in DOMAIN filtered_todos :
          TagsTruthy(filtered_todos[i].tags) /\ ~json_loads(filtered_todos[i].tags).ok
    THEN Raised
    ELSE Returned(SelectSeq(filtered_todos,
            LAMBDA t : TagsTruthy(t.tags) /\ tag \in Range(json_loads(t.tags).value)))

RECURSIVE TagLoop(_, _)
TagLoop(filtered_todos, tags) ==
    IF tags = <<>> THEN Returned(filtered_todos)
    ELSE LET pass == TagPass(filtered_todos, Head(tags))
         IN  IF pass.raised THEN Raised ELSE TagLoop(pass.value, Tail(tags))

ByCompleted_KeepsTheCompleted(ts, filters) ==
    IF filters.completed.has
    THEN SelectSeq(ts, LAMBDA t : t.completed)
    ELSE ts

ByCompleted(ts, filters) ==
    IF filters.completed.has
    THEN SelectSeq(ts, LAMBDA t : t.completed = filters.completed.v)
    ELSE ts

ByPriority(ts, filters) ==
    IF filters.priority.has
    THEN SelectSeq(ts, LAMBDA t : t.priority = filters.priority.v)
    ELSE ts

ByCategory(ts, filters) ==
    IF filters.category.has
    THEN SelectSeq(ts, LAMBDA t : t.category = filters.category.v)
    ELSE ts

ByTags(ts, filters) ==
    IF filters.tags.has THEN TagLoop(ts, filters.tags.v) ELSE Returned(ts)

ByDateFrom(ts, filters) ==
    IF filters.date_from.has /\ parse_datetime(filters.date_from.v) # NULL
    THEN SelectSeq(ts, LAMBDA t : t.created_at # NULL
                                  /\ t.created_at >= parse_datetime(filters.date_from.v))
    ELSE ts

ByDateTo(ts, filters) ==
    IF filters.date_to.has /\ parse_datetime(filters.date_to.v) # NULL
    THEN SelectSeq(ts, LAMBDA t : t.created_at # NULL
                                  /\ t.created_at <= parse_datetime(filters.date_to.v))
    ELSE ts

\* The 'overdue' key is read nowhere in filter_todos.
filter_todos(todo_list, filters) ==
    LET tagged == ByTags(ByCategory(ByPriority(ByCompleted(todo_list, filters),
                                               filters), filters), filters)
    IN  IF tagged.raised THEN Raised
        ELSE Returned(ByDateTo(ByDateFrom(tagged.value, filters), filters))

------------------------------------------------------------------------------
(* utils.py: DataUtils.sort_todos *)

priority_order_ByName(priority) ==
    CASE priority = "high" -> 1
      [] priority = "low" -> 2
      [] priority = "medium" -> 3
      [] OTHER -> 2

\* priority_order.get(x.priority, 2)
priority_order(priority) ==
    CASE priority = "high" -> 1
      [] priority = "medium" -> 2
      [] priority = "low" -> 3
      [] OTHER -> 2

\* datetime.min and datetime.max stand below and above every instant.
datetime_min == -1
datetime_max == MaxTime + 1

SortKey(todo, sort_by) ==
    CASE sort_by = "priority" -> priority_order(todo.priority)
      [] sort_by = "created_at" ->
            IF todo.created_at # NULL THEN todo.created_at ELSE datetime_min
      [] sort_by = "due_date" ->
            IF todo.due_date # NULL THEN todo.due_date ELSE datetime_max
      [] sort_by = "completed" -> IF todo.completed THEN 1 ELSE 0
      [] OTHER -> 0

sorted_TurnsRound(xs, keys, reverse) ==
    LET n == Len(xs)
        Before(i, j) ==
            \/ keys[i] < keys[j]
            \/ keys[i] = keys[j] /\ i < j
        Place(j) == 1 + Cardinality({i \in 1..n : Before(i, j)})
        up == [k \in 1..n |-> xs[CHOOSE j \in 1..n : Place(j) = k]]
    IN  IF reverse THEN [k \in 1..n |-> up[n + 1 - k]] ELSE up

\* sorted(iterable, key=..., reverse=...): the stable sort; keys[i] is the
\* key of xs[i]. Element j of the input lands after the elements whose key
\* goes first and after the earlier elements of equal key; reverse=True turns
\* the key order round and keeps equal keys in input order.
sorted(xs, keys, reverse) ==
    LET n == Len(xs)
        Before(i, j) ==
            \/ IF reverse THEN keys[i] > keys[j] ELSE keys[i] < keys[j]
            \/ keys[i] = keys[j] /\ i < j
        Place(j) == 1 + Cardinality({i \in 1..n : Before(i, j)})
    IN  [k \in 1..n |-> xs[CHOOSE j \in 1..n : Place(j) = k]]

\* str.lower on the order words the callers pass
lower(word) == IF word = "DESC" THEN "desc" ELSE IF word = "ASC" THEN "asc" ELSE word

sort_todos_FallsBackToPriority(todo_list, sort_by, order) ==
    LET reverse == (lower(order) = "desc")
        by == IF sort_by \in {"priority", "created_at", "due_date", "completed"}
              THEN sort_by ELSE "priority"
    IN  sorted(todo_list, [i \in DOMAIN todo_list |-> SortKey(todo_list[i], by)], reverse)

sort_todos(todo_list, sort_by, order) ==
    LET reverse == (lower(order) = "desc")
    IN  IF sort_by \in {"priority", "created_at", "due_date", "completed"}
        THEN sorted(todo_list, [i \in DOMAIN todo_list |-> SortKey(todo_list[i], sort_by)], reverse)
        ELSE todo_list

------------------------------------------------------------------------------
(* services.py: TodoService.get_all_todos *)

\* SQLite's BINARY collation of the priority column: byte order of the words.
collate(priority) ==
    CASE priority = "high" -> 1
      [] priority = "low" -> 2
      [] priority = "medium" -> 3
      [] OTHER -> 4

\* WHERE clause. A comparison with a NULL due_date is not true, so the row
\* is left out.
Where(row, filters, t) ==
    /\ filters.completed.has => row.completed = filters.completed.v
    /\ filters.priority.has => row.priority = filters.priority.v
    /\ filters.category.has => row.category = filters.category.v
    /\ (filters.overdue.has /\ filters.overdue.v) =>
          (row.due_date # NULL /\ row.due_date < t /\ row.completed = FALSE)

\* ORDER BY terms as <<value, descending>> pairs; SQLite puts NULL below
\* every value, as NULL == -1 is below every instant.
OrderBy(row, sort_by, order) ==
    CASE sort_by = "priority" ->
            << <<IF row.completed THEN 1 ELSE 0, FALSE>>,
               <<collate(row.priority), FALSE>>,
               <<row.created_at, FALSE>> >>
      [] sort_by = "created_at" -> << <<row.created_at, order = "desc">> >>
      [] sort_by = "due_date" -> << <<row.due_date, order # "asc">> >>
      [] OTHER -> << >>

RECURSIVE RowBefore(_, _)
\* a sorts strictly before b under the terms
RowBefore(a, b) ==
    IF a = <<>> THEN FALSE
    ELSE LET x == Head(a)[1]
             y == Head(b)[1]
             desc == Head(a)[2]
         IN  IF x = y THEN RowBefore(Tail(a), Tail(b))
             ELSE IF desc THEN x > y ELSE x < y

\* The orders query.all() may give: every arrangement of the selected rows
\* that respects ORDER BY; rows the terms do not separate come in an order
\* SQL leaves open.
Arrangements(rows, sort_by, order) ==
    LET n == Len(rows)
        perms == {f \in [1..n -> 1..n] : \A i, j \in 1..n : i # j => f[i] # f[j]}
        Ordered(f) == \A i, j \in 1..n :
            i < j => ~RowBefore(OrderBy(rows[f[j]], sort_by, order),
                                OrderBy(rows[f[i]], sort_by, order))
    IN  {[k \in 1..n |-> rows[f[k]]] : f \in {g \in perms : Ordered(g)}}

get_all_todos(table, filters, sort_by, order, t) ==
    Arrangements(SelectSeq(table, LAMBDA row : Where(row, filters, t)), sort_by, order)

------------------------------------------------------------------------------
(* Calls of the query functions: one call per behaviour on a drawn list *)

MaxColl == 2         \* tasks in a list handed to filter_todos, rows listed
MaxFilterKeys == 2   \* keys in a filter dict handed to filter_todos
MaxListKeys == 1     \* keys in a filter dict handed to get_all_todos
MaxSortLen == 3      \* tasks in a list handed to sort_todos

NoCategory == "<None>"

Lists(universe, n) == UNION {[1..k -> universe] : k \in 0..n}

\* Rows come out of the table with distinct primary keys.
WithIds(xs) == [i \in DOMAIN xs |-> [xs[i] EXCEPT !.id = i]]

\* Tasks as create_todo and create_sample_data store them, over the columns
\* filter_todos reads.
FilterTodos ==
    [id : {0}, completed : BOOLEAN, priority : {"high", "low"},
     category : {NoCategory, "work"},
     tags : {ServiceTags(<<>>), ServiceTags(<<"t1">>), SampleTags(<<"t1">>)},
     created_at : Times, due_date : {NULL}]

\* Over the columns sort_todos reads. A call compares one column, so the
\* columns vary one at a time about a medium task created at 0; priority and
\* created_at vary together.
SortTodos ==
    {t \in [id : {0}, completed : BOOLEAN, priority : valid_priorities,
            category : {NoCategory}, tags : {NoTags},
            created_at : Times, due_date : {NULL, 0}] :
        \/ t.due_date = NULL /\ ~t.completed
        \/ t.priority = "medium" /\ t.created_at = 0}

\* Over the columns get_all_todos reads.
ListTodos ==
    [id : {0}, completed : BOOLEAN, priority : valid_priorities,
     category : {NoCategory, "work"}, tags : {NoTags},
     created_at : Times, due_date : {NULL, 0}]

FilterDicts ==
    [completed : {Absent(FALSE), Arg(FALSE), Arg(TRUE)},
     priority : {Absent(""), Arg("high"), Arg("urgent")},
     category : {Absent(""), Arg("work")},
     tags : {Absent(<<>>), Arg(<<>>), Arg(<<"t1">>)},
     date_from : {Absent(DateStr("empty", 0)), Arg(DateStr("invalid-date", 0)),
                  Arg(DateStr("%Y-%m-%d", MaxTime))},
     date_to : {Absent(DateStr("empty", 0)), Arg(DateStr("invalid-date", 0)),
                Arg(DateStr("%Y/%m/%d", 0))},
     overdue : {Absent(FALSE), Arg(TRUE)}]

Keys(filters) == {k \in DOMAIN filters : filters[k].has}

Without(filters, k) == [filters EXCEPT ![k].has = FALSE]

FilterInputs == {f \in FilterDicts : Cardinality(Keys(f)) <= MaxFilterKeys}

ListInputs ==
    {f \in FilterDicts : /\ Cardinality(Keys(f)) <= MaxListKeys
                         /\ Keys(f) \subseteq {"completed", "priority", "category", "overdue"}}

SortByInputs == {"priority", "created_at", "due_date", "completed", "id"}

OrderInputs == {"asc", "desc", "DESC"}

InitQuery(lists, clock) ==
    /\ variant = "service"
    /\ todos = [i \in {} |-> NewTodo(Str(0, MinContentLen, 0), "medium", 0)]
    /\ seq = 0
    /\ issued = 0
    /\ now \in clock
    /\ last = [op |-> "init", ok |-> TRUE]
    /\ coll \in {WithIds(xs) : xs \in lists}
    /\ req = NoRequest
    /\ res = Returned(<<>>)

CallFilterTodos(filters) ==
    /\ req = NoRequest
    /\ req' = [op |-> "filter_todos", filters |-> filters]
    /\ res' = filter_todos(coll, filters)
    /\ UNCHANGED <<storeVars, now, coll>>

CallSortTodos(sort_by, order) ==
    /\ req = NoRequest
    /\ req' = [op |-> "sort_todos", sort_by |-> sort_by, order |-> order]
    /\ res' = Returned(sort_todos(coll, sort_by, order))
    /\ UNCHANGED <<storeVars, now, coll>>

\* coll is the todos table in rowid order
CallGetAllTodos(filters, sort_by, order) ==
    /\ req = NoRequest
    /\ req' = [op |-> "get_all_todos", filters |-> filters,
               sort_by |-> sort_by, order |-> order]
    /\ \E rows \in get_all_todos(coll, filters, sort_by, order, now) :
          res' = Returned(rows)
    /\ UNCHANGED <<storeVars, now, coll>>

InitFilter == InitQuery(Lists(FilterTodos, MaxColl), {MaxTime})

NextFilter == \E filters \in FilterInputs : CallFilterTodos(filters)

SpecFilter == InitFilter /\ [][NextFilter]_vars

\* The calls of SpecFilter that pass no key but completed.
NextCompleted ==
    \E filters \in {f \in FilterInputs : Keys(f) \subseteq {"completed"}} :
        CallFilterTodos(filters)

SpecCompleted == InitFilter /\ [][NextCompleted]_vars

InitSort == InitQuery(Lists(SortTodos, MaxSortLen), {MaxTime})

NextSort == \E sort_by \in SortByInputs, order \in OrderInputs : CallSortTodos(sort_by, order)

SpecSort == InitSort /\ [][NextSort]_vars

InitList == InitQuery(Lists(ListTodos, MaxColl), Times)

NextList ==
    \E filters \in ListInputs, sort_by \in SortByInputs \ {"completed"}, order \in OrderInputs :
        CallGetAllTodos(filters, sort_by, order)

SpecList == InitList /\ [][NextList]_vars

------------------------------------------------------------------------------
(* utils.py: DataUtils.calculate_stats *)

MaxStatsLen == 4     \* tasks in a list handed to calculate_stats

\* Instants of one calendar day, for datetime.date()
DayLen == 2

date(t) == t \div DayLen

round_tenths_Truncates(num, den) == (num * 1000) \div den

\* round(num / den * 100, 1), given in tenths: the nearest tenth, a tie going
\* to the even one as Python 3 rounds (a tie needs den to be a multiple of 16).
round_tenths(num, den) ==
    LET q == (num * 1000) \div den
        r == (num * 1000) % den
    IN  IF 2 * r < den THEN q
        ELSE IF 2 * r > den THEN q + 1
        ELSE IF q % 2 = 0 THEN q ELSE q + 1

calculate_stats_PendingIsTotal(todo_list, t) ==
    LET total == Len(todo_list)
        completed == Cardinality({i \in DOMAIN todo_list : todo_list[i].completed})
        Priority(p) == Cardinality({i \in DOMAIN todo_list : todo_list[i].priority = p})
    IN  [total |-> total,
         completed |-> completed,
         pending |-> total,
         completion_rate |-> IF total > 0 THEN round_tenths(completed, total) ELSE 0,
         priority_stats |-> [high |-> Priority("high"), medium |-> Priority("medium"),
                             low |-> Priority("low")],
         overdue |-> Cardinality({i \in DOMAIN todo_list : is_overdue(todo_list[i], t)}),
         today_todos |-> Cardinality({i \in DOMAIN todo_list :
                            /\ todo_list[i].created_at # NULL
                            /\ date(todo_list[i].created_at) = date(t)})]

\* completion_rate is kept in tenths of a percent point (333 for 33.3).
calculate_stats(todo_list, t) ==
    LET total == Len(todo_list)
        completed == Cardinality({i \in DOMAIN todo_list : todo_list[i].completed})
        pending == total - completed
        Priority(p) == Cardinality({i \in DOMAIN todo_list : todo_list[i].priority = p})
    IN  [total |-> total,
         completed |-> completed,
         pending |-> pending,
         completion_rate |-> IF total > 0 THEN round_tenths(completed, total) ELSE 0,
         priority_stats |-> [high |-> Priority("high"), medium |-> Priority("medium"),
                             low |-> Priority("low")],
         overdue |-> Cardinality({i \in DOMAIN todo_list : is_overdue(todo_list[i], t)}),
         today_todos |-> Cardinality({i \in DOMAIN todo_list :
                            /\ todo_list[i].created_at # NULL
                            /\ date(todo_list[i].created_at) = date(t)})]

\* Over the columns calculate_stats reads: completed and due_date vary
\* together (is_overdue reads both), priority and created_at one at a time.
StatsTodos ==
    {t \in [id : {0}, completed : BOOLEAN, priority : valid_priorities,
            category : {NoCategory}, tags : {NoTags},
            created_at : Times, due_date : {NULL, 0}] :
        \/ t.priority = "medium" /\ t.created_at = 0
        \/ t.due_date = NULL /\ ~t.completed /\ t.created_at = 0
        \/ t.due_date = NULL /\ ~t.completed /\ t.priority = "medium"}

CallCalculateStats ==
    /\ req = NoRequest
    /\ req' = [op |-> "calculate_stats"]
    /\ res' = Returned(calculate_stats(coll, now))
    /\ UNCHANGED <<storeVars, now, coll>>

InitCalc == InitQuery(Lists(StatsTodos, MaxStatsLen), Times)

NextCalc == CallCalculateStats

SpecCalc == InitCalc /\ [][NextCalc]_vars

------------------------------------------------------------------------------
(* Statistics of the stored table: services.py get_stats, app.py api_stats *)

NoFilters == CHOOSE f \in FilterDicts : Keys(f) = {}

Rows_OnlyPending(table) ==
    LET ids == {id \in DOMAIN table : ~table[id].completed}
        Nth(k) == CHOOSE id \in ids : Cardinality({j \in ids : j < id}) = k - 1
    IN  [k \in 1..Cardinality(ids) |->
            [id |-> Nth(k), completed |-> table[Nth(k)].completed,
             priority |-> table[Nth(k)].priority, category |-> NoCategory,
             tags |-> NoTags, created_at |-> table[Nth(k)].created_at,
             due_date |-> NULL]]

\* Todo.query over the stored table, in rowid order; the columns the modelled
\* create_todo data do not supply hold their NULL default.
Rows(table) ==
    LET ids == DOMAIN table
        Nth(k) == CHOOSE id \in ids : Cardinality({j \in ids : j < id}) = k - 1
    IN  [k \in 1..Cardinality(ids) |->
            [id |-> Nth(k), completed |-> table[Nth(k)].completed,
             priority |-> table[Nth(k)].priority, category |-> NoCategory,
             tags |-> NoTags, created_at |-> table[Nth(k)].created_at,
             due_date |-> NULL]]

\* TodoService.get_stats: calculate_stats over get_all_todos()
get_stats ==
    /\ variant = "service"
    /\ req = NoRequest
    /\ req' = [op |-> "get_stats"]
    /\ \E rows \in get_all_todos(Rows(todos), NoFilters, "priority", "asc", now) :
          res' = Returned(calculate_stats(rows, now))
    /\ UNCHANGED <<storeVars, now, coll>>

\* app.py api_stats: SELECT COUNT(*) FROM todos [WHERE completed = 1]
api_stats ==
    /\ variant = "app"
    /\ req = NoRequest
    /\ req' = [op |-> "api_stats"]
    /\ LET total == Cardinality(DOMAIN todos)
           completed == Cardinality({id \in DOMAIN todos : todos[id].completed})
       IN  res' = Returned([total |-> total,
                            completed |-> completed,
                            pending |-> total - completed,
                            completion_rate |-> IF total > 0
                                                THEN round_tenths(completed, total)
                                                ELSE 0])
    /\ UNCHANGED <<storeVars, now, coll>>

\* The handlers of Spec run until the statistics are asked for once.
NextStats ==
    \/ req = NoRequest /\ Next
    \/ get_stats
    \/ api_stats

SpecStats == Init /\ [][NextStats]_vars

------------------------------------------------------------------------------
(* services.py: TodoService.bulk_update, TodoService.bulk_delete *)

MaxBulk == 2         \* ids in a list handed to bulk_update / bulk_delete

BulkIds == Lists(Ids, MaxBulk)

BulkUpdates ==
    { [content |-> Arg(Str(1, MaxContentLen, 1)), priority |-> Absent("medium")],
      [content |-> Absent(Str(0, 0, 0)), priority |-> Arg("high")],
      [content |-> Arg(Str(1, MinContentLen, 0)), priority |-> Arg("urgent")],
      [content |-> Arg(Str(1, 1, 1)), priority |-> Arg("high")] }

RECURSIVE BulkUpdateLoop(_, _, _, _)
\* for todo_id in todo_ids: TodoService.update_todo(todo_id, updates)
\* Each update_todo commits or rolls back its own row; its ValueError leaves
\* the loop.
BulkUpdateLoop(table, todo_ids, updates, t) ==
    IF todo_ids = <<>> THEN [raised |-> FALSE, table |-> table]
    ELSE LET todo_id == Head(todo_ids)
         IN  IF todo_id \notin DOMAIN table
             THEN [raised |-> TRUE, table |-> table]
             ELSE LET session == AssignedTodo(table[todo_id], updates, t)
                  IN  IF session.raised
                      THEN [raised |-> TRUE,
                            table |-> session_rollback(table, todo_id, session.todo)]
                      ELSE BulkUpdateLoop(session_commit(table, todo_id, session.todo),
                                          Tail(todo_ids), updates, t)

bulk_update_try_RollsBackAll(table, todo_ids, updates, t) ==
    LET loop == BulkUpdateLoop(table, todo_ids, updates, t)
    IN  IF loop.raised THEN [raised |-> TRUE, table |-> table] ELSE loop

\* try: the loop; except Exception: logger.error(...); raise
bulk_update_try(table, todo_ids, updates, t) ==
    BulkUpdateLoop(table, todo_ids, updates, t)

RECURSIVE BulkDeleteLoop(_, _)
\* for todo_id in todo_ids: TodoService.delete_todo(todo_id)
BulkDeleteLoop(table, todo_ids) ==
    IF todo_ids = <<>> THEN [raised |-> FALSE, table |-> table]
    ELSE LET todo_id == Head(todo_ids)
         IN  IF todo_id \notin DOMAIN table
             THEN [raised |-> TRUE, table |-> table]
             ELSE BulkDeleteLoop([i \in DOMAIN table \ {todo_id} |-> table[i]],
                                 Tail(todo_ids))

\* The request of a bulk call keeps the table as the call found it.
bulk_update(todo_ids, updates) ==
    /\ variant = "service"
    /\ req = NoRequest
    /\ req' = [op |-> "bulk_update", todo_ids |-> todo_ids, updates |-> updates,
               before |-> todos]
    /\ LET done == bulk_update_try(todos, todo_ids, updates, now)
       IN  /\ todos' = done.table
           /\ res' = IF done.raised THEN Raised ELSE Returned(todo_ids)
           /\ Done("bulk_update", ~done.raised)
    /\ UNCHANGED <<variant, seq, issued, now, coll>>

bulk_delete(todo_ids) ==
    /\ variant = "service"
    /\ req = NoRequest
    /\ req' = [op |-> "bulk_delete", todo_ids |-> todo_ids, before |-> todos]
    /\ LET done == BulkDeleteLoop(todos, todo_ids)
       IN  /\ todos' = done.table
           /\ res' = IF done.raised THEN Raised ELSE Returned(TRUE)
           /\ Done("bulk_delete", ~done.raised)
    /\ UNCHANGED <<variant, seq, issued, now, coll>>

NextBulk ==
    \/ req = NoRequest /\ Next
    \/ \E todo_ids \in BulkIds, updates \in BulkUpdates : bulk_update(todo_ids, updates)
    \/ \E todo_ids \in BulkIds : bulk_delete(todo_ids)

SpecBulk == Init /\ [][NextBulk]_vars

------------------------------------------------------------------------------
(* app_basic.py, app_simple.py: toggle_todo under concurrent requests *)

MaxToggles == 3      \* toggle requests in flight on one task

\* The task the requests toggle.
ToggledId == 1

\* A row of the todos table of app_basic.py / the Todo model of app_simple.py.
SimpleTodo(content, priority, completed, t) ==
    [content |-> content, priority |-> priority, completed |-> completed,
     created_at |-> t]

\* The requests are handled by threads or worker processes of their own, each
\* with its own connection or session; req lists them, coll keeps the rows as
\* they were before the first request.
InitToggle ==
    /\ variant \in {"basic", "simple"}
    /\ \E priority \in valid_priorities, completed \in BOOLEAN :
          todos = [i \in {ToggledId} |->
                      SimpleTodo(Str(0, MinContentLen, 0), priority, completed, 0)]
    /\ seq = 0
    /\ issued = ToggledId
    /\ now = 0
    /\ last = [op |-> "init", ok |-> TRUE]
    /\ coll = <<todos[ToggledId]>>
    /\ req = <<>>
    /\ res = <<>>

\* GET /toggle/<todo_id> arrives.
ToggleRequest(todo_id) ==
    /\ Len(req) < MaxToggles
    /\ req' = Append(req, [pc |-> "start", todo_id |-> todo_id, seen |-> FALSE])
    /\ UNCHANGED <<storeVars, now, coll, res>>

\* app_basic.py: todo = db.execute('SELECT * FROM todos WHERE id = ?').fetchone()
basic_toggle_select(r) ==
    /\ variant = "basic"
    /\ req[r].pc = "start"
    /\ req' = IF req[r].todo_id \in DOMAIN todos
              THEN [req EXCEPT ![r].pc = "selected",
                               ![r].seen = todos[req[r].todo_id].completed]
              ELSE [req EXCEPT ![r].pc = "done"]
    /\ UNCHANGED <<storeVars, now, coll, res>>

\* app_basic.py: new_status = 0 if todo['completed'] else 1
\*               UPDATE todos SET completed = new_status WHERE id = ?; commit
basic_toggle_update(r) ==
    /\ variant = "basic"
    /\ req[r].pc = "selected"
    /\ LET new_status == IF req[r].seen THEN FALSE ELSE TRUE
       IN  todos' = [todos EXCEPT ![req[r].todo_id].completed = new_status]
    /\ req' = [req EXCEPT ![r].pc = "done"]
    /\ Done("toggle", TRUE)
    /\ UNCHANGED <<variant, seq, issued, now, coll, res>>

\* app_simple.py: todo = Todo.query.get_or_404(todo_id), loaded into the
\* session of the request.
simple_toggle_get(r) ==
    /\ variant = "simple"
    /\ req[r].pc = "start"
    /\ req' = IF req[r].todo_id \in DOMAIN todos
              THEN [req EXCEPT ![r].pc = "loaded",
                               ![r].seen = todos[req[r].todo_id].completed]
              ELSE [req EXCEPT ![r].pc = "done"]
    /\ UNCHANGED <<storeVars, now, coll, res>>

\* app_simple.py: todo.completed = not todo.completed; db.session.commit()
\* The flush writes the value computed from the loaded object.
simple_toggle_commit(r) ==
    /\ variant = "simple"
    /\ req[r].pc = "loaded"
    /\ todos' = [todos EXCEPT ![req[r].todo_id].completed = ~req[r].seen]
    /\ req' = [req EXCEPT ![r].pc = "done"]
    /\ Done("toggle", TRUE)
    /\ UNCHANGED <<variant, seq, issued, now, coll, res>>

NextToggle ==
    \/ ToggleRequest(ToggledId)
    \/ \E r \in DOMAIN req : basic_toggle_select(r)
    \/ \E r \in DOMAIN req : basic_toggle_update(r)
    \/ \E r \in DOMAIN req : simple_toggle_get(r)
    \/ \E r \in DOMAIN req : simple_toggle_commit(r)

SpecToggle == InitToggle /\ [][NextToggle]_vars

------------------------------------------------------------------------------
(* services.py: CategoryService.create_category, update_category *)

MaxCategories == 2   \* rows the categories table holds
MaxCalls == 2        \* CategoryService calls in flight at a time

\* A name: a word behind some blanks. str.strip() removes the blanks.
Name(lead, word) == [lead |-> lead, word |-> word]

strip_name(name) == Name(0, name.word)

name_truthy(name) == name.lead > 0 \/ name.word # ""

NameInputs ==
    { Name(0, ""), Name(1, ""), Name(0, "work"), Name(1, "work"), Name(0, "home") }

default_color == "#667eea"

Category(name, color) == [name |-> name, color |-> color]

CreateCalls == [op : {"create_category"}, name : NameInputs]

UpdateCalls ==
    [op : {"update_category"}, category_id : 1..MaxCategories,
     data : [name : {Absent(Name(0, "")), Arg(Name(1, "")), Arg(Name(0, "work")),
                     Arg(Name(1, "home"))},
             color : {Absent(default_color), Arg("#ff0000")}]]

Idle == [pc |-> "idle"]

\* Under SpecCategory coll is the categories table (id -> row) and req the
\* calls in flight, each in a session of its own.
InitCategory ==
    /\ variant = "service"
    /\ todos = [i \in {} |-> NewTodo(Str(0, MinContentLen, 0), "medium", 0)]
    /\ seq = 0
    /\ issued = 0
    /\ now = 0
    /\ last = [op |-> "init", ok |-> TRUE]
    /\ coll = [i \in {} |-> Category(Name(0, "work"), default_color)]
    /\ req = [s \in 1..MaxCalls |-> Idle]
    /\ res = <<>>

\* A call starts in the first free session.
CategoryCall(call) ==
    /\ \E s \in DOMAIN req :
          /\ req[s] = Idle
          /\ \A f \in 1..(s - 1) : req[f] # Idle
          /\ req' = [req EXCEPT ![s] = [pc |-> "start", call |-> call,
                                        loaded |-> Category(Name(0, ""), default_color)]]
    /\ UNCHANGED <<storeVars, now, coll, res>>

\* The call of session s returns or raises (after db.session.rollback()).
Finish(s, raised) ==
    /\ req' = [req EXCEPT ![s] = Idle]
    /\ res' = [raised |-> raised, call |-> req[s].call]
    /\ Done(req[s].call.op, ~raised)

unique_violation_Unenforced(table, category_id, name) == FALSE

\* name = db.Column(db.String(50), unique=True, nullable=False): the INSERT or
\* UPDATE of a name another row holds raises IntegrityError.
unique_violation(table, category_id, name) ==
    \E other \in DOMAIN table \ {category_id} : table[other].name = name

\* create_category up to the query for an existing category of that name
create_category_check(s) ==
    /\ req[s].pc = "start"
    /\ req[s].call.op = "create_category"
    /\ LET name == req[s].call.name
       IN  IF ~name_truthy(name) \/ ~name_truthy(strip_name(name))
           THEN Finish(s, TRUE)
           ELSE IF \E id \in DOMAIN coll : coll[id].name = strip_name(name)
           THEN Finish(s, TRUE)
           ELSE /\ req' = [req EXCEPT ![s].pc = "checked"]
                /\ UNCHANGED <<last, res>>
    /\ UNCHANGED <<variant, todos, seq, issued, now, coll>>

\* create_category: db.session.add(category); db.session.commit()
create_category_commit(s) ==
    /\ req[s].pc = "checked"
    /\ LET name == strip_name(req[s].call.name)
           id == Cardinality(DOMAIN coll) + 1
       IN  IF unique_violation(coll, NULL, name)
           THEN /\ UNCHANGED coll
                /\ Finish(s, TRUE)
           ELSE /\ id <= MaxCategories
                /\ coll' = [i \in DOMAIN coll \cup {id} |->
                               IF i = id THEN Category(name, default_color) ELSE coll[i]]
                /\ Finish(s, FALSE)
    /\ UNCHANGED <<variant, todos, seq, issued, now>>

\* update_category up to the assignments: the row is loaded into the session
\* and the name checked for being empty.
update_category_load(s) ==
    /\ req[s].pc = "start"
    /\ req[s].call.op = "update_category"
    /\ LET id == req[s].call.category_id
           data == req[s].call.data
       IN  IF id \notin DOMAIN coll
           THEN Finish(s, TRUE)
           ELSE IF data.name.has /\ (~name_truthy(data.name.v) \/ ~name_truthy(strip_name(data.name.v)))
           THEN Finish(s, TRUE)
           ELSE /\ req' = [req EXCEPT ![s].pc = "loaded", ![s].loaded = coll[id]]
                /\ UNCHANGED <<last, res>>
    /\ UNCHANGED <<variant, todos, seq, issued, now, coll>>

\* update_category: db.session.commit(). The flush writes the columns whose
\* assigned value differs from the loaded one.
update_category_commit(s) ==
    /\ req[s].pc = "loaded"
    /\ LET id == req[s].call.category_id
           data == req[s].call.data
           loaded == req[s].loaded
           name == IF data.name.has THEN strip_name(data.name.v) ELSE loaded.name
           color == IF data.color.has THEN data.color.v ELSE loaded.color
           row == Category(IF name # loaded.name THEN name ELSE coll[id].name,
                           IF color # loaded.color THEN color ELSE coll[id].color)
       IN  IF name # loaded.name /\ unique_violation(coll, id, name)
           THEN /\ UNCHANGED coll
                /\ Finish(s, TRUE)
           ELSE /\ coll' = [coll EXCEPT ![id] = row]
                /\ Finish(s, FALSE)
    /\ UNCHANGED <<variant, todos, seq, issued, now>>

NextCategory ==
    \/ \E call \in CreateCalls \cup UpdateCalls : CategoryCall(call)
    \/ \E s \in DOMAIN req : create_category_check(s)
    \/ \E s \in DOMAIN req : create_category_commit(s)
    \/ \E s \in DOMAIN req : update_category_load(s)
    \/ \E s \in DOMAIN req : update_category_commit(s)

SpecCategory == InitCategory /\ [][NextCategory]_vars

------------------------------------------------------------------------------
(* The list object sort_todos and filter_todos hand back *)

\* filter_todos starts from filtered_todos = todos and rebinds the name only
\* where a list comprehension runs: with no key that applies, the list it
\* returns is the very list it was given.
filter_todos_returns_input(filters) ==
    ~ \/ filters.completed.has
      \/ filters.priority.has
      \/ filters.category.has
      \/ filters.tags.has /\ filters.tags.v # <<>>
      \/ filters.date_from.has /\ parse_datetime(filters.date_from.v) # NULL
      \/ filters.date_to.has /\ parse_datetime(filters.date_to.v) # NULL

\* sort_todos: sorted() builds a new list, the else branch returns todos.
sort_todos_returns_input(sort_by) ==
    sort_by \notin {"priority", "created_at", "due_date", "completed"}

\* A caller empties the list it was handed back (list.clear()); the input
\* list is emptied with it when the two are one object.
ClearReturned ==
    /\ req.op \in {"filter_todos", "sort_todos"}
    /\ ~res.raised
    /\ LET same == IF req.op = "sort_todos"
                   THEN sort_todos_returns_input(req.sort_by)
                   ELSE filter_todos_returns_input(req.filters)
       IN  coll' = IF same THEN <<>> ELSE coll
    /\ res' = Returned(<<>>)
    /\ req' = [op |-> "clear", of |-> req]
    /\ UNCHANGED <<storeVars, now>>

InitAlias == InitQuery(Lists(SortTodos, MaxColl), {MaxTime})

NextAlias ==
    \/ \E filters \in FilterInputs : CallFilterTodos(filters)
    \/ \E sort_by \in SortByInputs, order \in OrderInputs : CallSortTodos(sort_by, order)
    \/ ClearReturned

SpecAlias == InitAlias /\ [][NextAlias]_vars

------------------------------------------------------------------------------
(* Properties of the table (Spec) *)

Stored == DOMAIN todos

\* Rows present before and after a step: the same task, since no step both
\* deletes and inserts.
Kept == DOMAIN todos \cap DOMAIN todos'

\* C1: in every reachable state every stored task has completed_at non-null
\* if and only if completed is true.
C1_CompletedAtIffCompleted ==
    \A id \in Stored : (todos[id].completed_at # NULL) <=> todos[id].completed

\* A task has been un-completed while another one is completed.
C1_Witness ==
    /\ last.op \in {"mark_incomplete", "uncomplete"}
    /\ \E i, j \in Stored :
          /\ todos[i].completed /\ todos[i].completed_at # NULL
          /\ ~todos[j].completed /\ todos[j].completed_at = NULL
          /\ todos[j].created_at < now

\* C2: completed_at changes exactly when completed changes: set when a task
\* becomes completed, cleared when it becomes not completed, and left as it is
\* by every step that does not change completed (marking a completed task
\* completed again included).
C2_CompletedAtChangesOnlyWithCompleted ==
    [][\A id \in Kept :
          /\ (~todos[id].completed /\ todos'[id].completed)
                => todos'[id].completed_at # NULL
          /\ (todos[id].completed /\ ~todos'[id].completed)
                => todos'[id].completed_at = NULL
          /\ (todos'[id].completed = todos[id].completed)
                => todos'[id].completed_at = todos[id].completed_at]_vars

\* C3: every stored task's priority is one of low, medium, high.
C3_PriorityEnumerated ==
    \A id \in Stored : todos[id].priority \in valid_priorities

\* C4: every stored task's content is trimmed and 2..500 characters long.
C4_ContentTrimmedAndBounded ==
    \A id \in Stored :
        /\ todos[id].content = strip(todos[id].content)
        /\ len(todos[id].content) >= MinContentLen
        /\ len(todos[id].content) <= MaxContentLen

\* C5: no step changes the created_at of a task it keeps: not an edit or
\* update, not a mark-completed or mark-incomplete, not an operation on
\* another task.
C5_CreatedAtFixed ==
    [][\A id \in Kept : todos'[id].created_at = todos[id].created_at]_vars

\* An edit or update went through on a table holding a task created before
\* the current clock value, next to another task.
C5_Witness ==
    /\ last.op \in {"update_todo", "edit"}
    /\ last.ok
    /\ Cardinality(Stored) >= 2
    /\ \E id \in Stored : todos[id].created_at < now

\* C6: an INSERT gives the new task an id strictly greater than every id
\* handed out before it, those of deleted tasks included.
C6_IdsNeverReused ==
    [][\A id \in DOMAIN todos' \ DOMAIN todos : id > issued]_vars

------------------------------------------------------------------------------
(* Properties of filter_todos (SpecFilter) *)

Ids_of(xs) == {xs[i].id : i \in DOMAIN xs}

\* C7: filter_todos returns exactly the tasks of the input that satisfy every
\* supplied predicate (completed, priority, category, every tag label present
\* in the task's tags, created_at within the parseable date bounds), in input
\* order, nothing duplicated or added, for every list and filter dict.
C7_FilterReturnsExactlyTheMatching ==
    req.op = "filter_todos" =>
        LET f == req.filters
            Satisfies(t) ==
                /\ f.completed.has => t.completed = f.completed.v
                /\ f.priority.has => t.priority = f.priority.v
                /\ f.category.has => t.category = f.category.v
                /\ f.tags.has => Range(f.tags.v) \subseteq Range(t.tags.items)
                /\ (f.date_from.has /\ f.date_from.v.fmt \in {"%Y-%m-%d", "%Y/%m/%d"})
                      => t.created_at >= f.date_from.v.t
                /\ (f.date_to.has /\ f.date_to.v.fmt \in {"%Y-%m-%d", "%Y/%m/%d"})
                      => t.created_at <= f.date_to.v.t
        IN  /\ ~res.raised
            /\ res.value = SelectSeq(coll, Satisfies)

\* C8: a filter call given the overdue flag alone returns exactly the tasks
\* with a due date strictly before now that are not completed.
C8_OverdueFlagSelectsExactlyTheOverdue ==
    (req.op \in {"filter_todos", "get_all_todos"} /\ Keys(req.filters) = {"overdue"}) =>
        /\ ~res.raised
        /\ Ids_of(res.value) =
              {coll[i].id : i \in {j \in DOMAIN coll :
                  /\ coll[j].due_date # NULL
                  /\ coll[j].due_date < now
                  /\ ~coll[j].completed}}

\* C9: a predicate whose value is not recognized (a priority outside
\* low/medium/high, a date bound that does not parse) is ignored: the call
\* raises nothing and returns what the same call without that key returns.
C9_UnrecognizedValueIsPassThrough ==
    req.op = "filter_todos" =>
        LET f == req.filters
            Unrecognized ==
                {k \in Keys(f) :
                    \/ k = "priority" /\ f.priority.v \notin {"low", "medium", "high"}
                    \/ k = "date_from" /\ f.date_from.v.fmt = "invalid-date"
                    \/ k = "date_to" /\ f.date_to.v.fmt = "invalid-date"}
        IN  \A k \in Unrecognized :
                /\ ~res.raised
                /\ res = filter_todos(coll, Without(f, k))

\* C19: for every list, filtering by completed=true and filtering by
\* completed=false give disjoint results that together hold every task of the
\* input exactly once.
C19_CompletedFiltersPartition ==
    (req.op = "filter_todos" /\ Keys(req.filters) = {"completed"}) =>
        LET other == filter_todos(coll,
                        [req.filters EXCEPT !.completed.v = ~req.filters.completed.v])
        IN  /\ ~res.raised /\ ~other.raised
            /\ Ids_of(res.value) \cap Ids_of(other.value) = {}
            /\ Ids_of(res.value) \cup Ids_of(other.value) = Ids_of(coll)
            /\ Len(res.value) + Len(other.value) = Len(coll)

C19_Witness ==
    /\ req.op = "filter_todos" /\ Keys(req.filters) = {"completed"}
    /\ ~req.filters.completed.v
    /\ Len(coll) = 2 /\ coll[1].completed /\ ~coll[2].completed
    /\ Ids_of(res.value) = {2}

\* C20: filtering is idempotent: for every list and filter, filter_todos
\* applied with the same filter to its own result returns that result again.
C20_FilterIsIdempotent ==
    req.op = "filter_todos" =>
        /\ ~res.raised
        /\ filter_todos(res.value, req.filters) = res

------------------------------------------------------------------------------
(* Properties of sort_todos (SpecSort) *)

\* C10: sort_todos by priority keeps every task and, ascending, leaves no
\* task of a lower priority ahead of one of a higher priority (high, then
\* medium, then low); descending, the other way round.
C10_PrioritySortOrdersHighMediumLow ==
    (req.op = "sort_todos" /\ req.sort_by = "priority" /\ req.order \in {"asc", "desc"}) =>
        LET out == res.value
            Higher(p, q) == <<p, q>> \in {<<"high", "medium">>, <<"medium", "low">>,
                                           <<"high", "low">>}
        IN  /\ ~res.raised
            /\ Len(out) = Len(coll)
            /\ Range(out) = Range(coll)
            /\ \A i, j \in DOMAIN out :
                  i < j => IF req.order = "asc"
                           THEN ~Higher(out[j].priority, out[i].priority)
                           ELSE ~Higher(out[i].priority, out[j].priority)

C10_Witness ==
    /\ req.op = "sort_todos" /\ req.sort_by = "priority" /\ req.order = "desc"
    /\ [i \in DOMAIN coll |-> coll[i].priority] = <<"medium", "low", "high">>
    /\ [i \in DOMAIN res.value |-> res.value[i].priority] = <<"low", "medium", "high">>

\* C11: in a sort by priority, tasks of the same priority come out in
\* ascending created_at order, whatever the input order and the direction.
C11_PriorityTiesByCreatedAt ==
    (req.op = "sort_todos" /\ req.sort_by = "priority" /\ req.order \in {"asc", "desc"}) =>
        LET out == res.value
        IN  \A i, j \in DOMAIN out :
                (i < j /\ out[i].priority = out[j].priority)
                    => out[i].created_at <= out[j].created_at

\* C12: in a sort by due_date, every task without a due date comes after
\* every task that has one, ascending and descending.
C12_NoDueDateSortsLast ==
    (req.op = "sort_todos" /\ req.sort_by = "due_date" /\ req.order \in {"asc", "desc"}) =>
        LET out == res.value
        IN  \A i, j \in DOMAIN out :
                (out[i].due_date = NULL /\ out[j].due_date # NULL) => j < i

\* C13: the sort is stable: for the keys priority, created_at, due_date and
\* completed and both directions, two tasks whose values of the sorted column
\* are equal keep in the output the relative order they had in the input.
C13_SortIsStable ==
    (req.op = "sort_todos" /\ req.order \in {"asc", "desc"}
        /\ req.sort_by \in {"priority", "created_at", "due_date", "completed"}) =>
        LET out == res.value
            Pos(id) == CHOOSE k \in DOMAIN out : out[k].id = id
        IN  /\ Len(out) = Len(coll)
            /\ Range(out) = Range(coll)
            /\ \A i, j \in DOMAIN coll :
                  (i < j /\ coll[i][req.sort_by] = coll[j][req.sort_by])
                      => Pos(coll[i].id) < Pos(coll[j].id)

C13_Witness ==
    /\ req.op = "sort_todos" /\ req.sort_by = "created_at" /\ req.order = "desc"
    /\ Len(coll) = 3
    /\ coll[1].created_at = 0 /\ coll[2].created_at = MaxTime /\ coll[3].created_at = 0
    /\ [i \in DOMAIN res.value |-> res.value[i].id] = <<2, 1, 3>>

\* C14: with a sort key that is none of priority, created_at, due_date and
\* completed, sort_todos returns the tasks in input order, in either
\* direction, and raises nothing.
C14_UnknownKeyKeepsInputOrder ==
    (req.op = "sort_todos"
        /\ req.sort_by \notin {"priority", "created_at", "due_date", "completed"}) =>
        /\ ~res.raised
        /\ res.value = coll

C14_Witness ==
    /\ req.op = "sort_todos" /\ req.sort_by = "id" /\ req.order = "desc"
    /\ Len(coll) = 3
    /\ [i \in DOMAIN coll |-> coll[i].priority] = <<"low", "high", "medium">>
    /\ res.value = coll

------------------------------------------------------------------------------
(* Properties of calculate_stats (SpecCalc) *)

Completed_in(xs) == {i \in DOMAIN xs : xs[i].completed}

\* C15: for every list of tasks the statistics record has total = the number
\* of tasks, completed = the number of tasks whose completed flag is true,
\* and pending + completed = total.
C15_PendingPlusCompletedIsTotal ==
    req.op = "calculate_stats" =>
        /\ res.value.total = Len(coll)
        /\ res.value.completed = Cardinality(Completed_in(coll))
        /\ res.value.pending + res.value.completed = res.value.total

C15_Witness ==
    /\ req.op = "calculate_stats"
    /\ Len(coll) = 3
    /\ Cardinality(Completed_in(coll)) = 1
    /\ res.value.pending = 2

\* C16: completion_rate is 0.0 for the empty list and otherwise
\* completed / total * 100 rounded to one decimal place (in tenths: within half
\* a tenth of completed * 1000 / total), and lies between 0.0 and 100.0.
C16_CompletionRateRounded ==
    req.op = "calculate_stats" =>
        LET total == Len(coll)
            completed == Cardinality(Completed_in(coll))
            rate == res.value.completion_rate
            diff == rate * total - completed * 1000
        IN  /\ ~res.raised
            /\ total = 0 => rate = 0
            /\ total > 0 => 2 * (IF diff < 0 THEN -diff ELSE diff) <= total
            /\ 0 <= rate /\ rate <= 1000

C16_Witness ==
    /\ req.op = "calculate_stats"
    /\ Len(coll) = 3
    /\ Cardinality(Completed_in(coll)) = 2
    /\ res.value.completion_rate = 667

\* C18: the overdue count is the number of tasks of the list that have a due
\* date before now and are not completed; completed tasks and tasks without
\* a due date are not counted.
C18_OverdueCount ==
    req.op = "calculate_stats" =>
        res.value.overdue =
            Cardinality({i \in DOMAIN coll : /\ coll[i].due_date # NULL
                                             /\ coll[i].due_date < now
                                             /\ ~coll[i].completed})

C18_Witness ==
    /\ req.op = "calculate_stats"
    /\ \E i, j, k \in DOMAIN coll :
          /\ coll[i].due_date # NULL /\ coll[i].due_date < now /\ ~coll[i].completed
          /\ coll[j].due_date # NULL /\ coll[j].due_date < now /\ coll[j].completed
          /\ coll[k].due_date = NULL /\ ~coll[k].completed
    /\ res.value.overdue = 1

------------------------------------------------------------------------------
(* Properties of get_stats (SpecStats) *)

\* C17: after any sequence of create_todo, mark_completed, mark_incomplete
\* and delete_todo calls, get_stats reports total = the number of stored
\* tasks, completed = the number of stored tasks marked completed, and
\* pending = their difference.
C17_StatsMatchTheStoredTasks ==
    req.op = "get_stats" =>
        LET done == {id \in Stored : todos[id].completed}
        IN  /\ ~res.raised
            /\ res.value.total = Cardinality(Stored)
            /\ res.value.completed = Cardinality(done)
            /\ res.value.pending = Cardinality(Stored) - Cardinality(done)

C17_Witness ==
    /\ req.op = "get_stats"
    /\ last.op = "mark_completed" /\ last.ok
    /\ Cardinality(Stored) = 2
    /\ Cardinality({id \in Stored : todos[id].completed}) = 1
    /\ res.value.total = 2 /\ res.value.completed = 1 /\ res.value.pending = 1
    /\ res.value.completion_rate = 500

------------------------------------------------------------------------------
(* Properties of the returned list (SpecAlias) *)

\* C21: sort_todos and filter_todos leave the input list as it was and hand
\* back a list of their own, so that no later change to the returned list
\* changes the input; also for an unknown sort key and an empty filter.
C21_InputListNeverChanges == [][coll' = coll]_vars

------------------------------------------------------------------------------
(* Errors of the query functions (SpecFilter) *)

\* C22: filter_todos, the tags predicate included, raises no error on any
\* list of tasks that create_todo or the sample-data creation can have
\* stored, whatever filter is supplied.
C22_QueriesRaiseNothing == res.raised = FALSE

------------------------------------------------------------------------------
(* Properties of the listing (SpecList) *)

\* C25: in the list returned for sort_by = priority, among tasks of the same
\* completion state every high task precedes every medium task and every
\* medium task precedes every low task.
C25_ListedHighMediumLow ==
    (req.op = "get_all_todos" /\ req.sort_by = "priority")
    => \A i, j \in DOMAIN res.value :
          (i < j /\ res.value[i].completed = res.value[j].completed)
          => priority_order(res.value[i].priority) <= priority_order(res.value[j].priority)

------------------------------------------------------------------------------
(* Properties of the service's writes (Spec) *)

\* C23: deleting a stored task removes exactly that task: looking its id up
\* afterwards finds nothing, and every other stored task is still there with
\* all its fields as they were.
C23_DeleteRemovesExactlyThatTask ==
    [][\A id \in Stored :
          (delete_todo(id) \/ AppDelete(id))
          => /\ get_todo_by_id(id)' = NULL
             /\ DOMAIN todos' = DOMAIN todos \ {id}
             /\ \A other \in DOMAIN todos \ {id} : todos'[other] = todos[other]]_vars

\* A task has been deleted from under another one, which is still stored.
C23_Witness ==
    /\ last.op \in {"delete_todo", "delete"}
    /\ last.ok
    /\ Stored = {MaxId}

\* Content that is empty or blank, or outside 2..500 characters once trimmed.
InvalidContent(content) ==
    \/ len(content) = 0
    \/ strip(content).core = 0
    \/ strip(content).core < MinContentLen
    \/ strip(content).core > MaxContentLen

InvalidPriority(priority) == priority \notin {"low", "medium", "high"}

\* C24: create_todo with invalid data (content empty, blank or outside 2..500
\* characters, or a priority outside low/medium/high) raises ValueError and
\* leaves the stored tasks exactly as they were.
C24_InvalidCreateStoresNothing ==
    [][\A data \in Data :
          /\ create_todo(data)
          /\ \/ InvalidContent(get(data.content, Str(0, 0, 0)))
             \/ InvalidPriority(get(data.priority, "medium"))
          => /\ last' = [op |-> "create_todo", ok |-> FALSE]
             /\ todos' = todos]_vars

\* A create_todo has been refused on a table that holds a task.
C24_Witness ==
    /\ last = [op |-> "create_todo", ok |-> FALSE]
    /\ Stored # {}

\* C26: update_todo is all-or-nothing: if any supplied field fails
\* validation, ValueError is raised and the stored task keeps every field,
\* those validated and assigned earlier in the call included.
C26_UpdateIsAllOrNothing ==
    [][\A id \in Stored, data \in Data :
          /\ update_todo(id, data)
          /\ \/ data.content.has /\ InvalidContent(data.content.v)
             \/ data.priority.has /\ InvalidPriority(data.priority.v)
          => /\ last' = [op |-> "update_todo", ok |-> FALSE]
             /\ todos' = todos]_vars

\* An update_todo has been refused while every id was stored, so for its
\* data and not for its id.
C26_Witness ==
    /\ last = [op |-> "update_todo", ok |-> FALSE]
    /\ Stored = Ids

\* C27: update_todo, delete_todo, mark_completed and mark_incomplete called
\* with an id that is not stored raise ValueError and leave every stored
\* task unchanged.
C27_MissingIdChangesNothing ==
    [][\A id \in Ids \ Stored :
          \/ \E data \in Data : update_todo(id, data)
          \/ delete_todo(id)
          \/ service_mark_completed(id)
          \/ service_mark_incomplete(id)
          => /\ last'.ok = FALSE
             /\ todos' = todos]_vars

\* A mark_completed has been refused on a table that holds a task.
C27_Witness ==
    /\ last = [op |-> "mark_completed", ok |-> FALSE]
    /\ Stored # {}

------------------------------------------------------------------------------
(* Properties of the bulk operations (SpecBulk) *)

\* The first position of the id list at which the bulk call fails, one past
\* the end of the list if there is none: an id that is not stored when its
\* turn comes, or (bulk_update) data with a field that fails validation.
FirstFailing ==
    LET ids == req.todo_ids
        Fails(i) ==
            IF req.op = "bulk_update"
            THEN \/ ids[i] \notin DOMAIN req.before
                 \/ req.updates.content.has /\ InvalidContent(req.updates.content.v)
                 \/ req.updates.priority.has /\ InvalidPriority(req.updates.priority.v)
            ELSE \/ ids[i] \notin DOMAIN req.before
                 \/ \E j \in 1..(i - 1) : ids[j] = ids[i]
    IN  IF \E i \in DOMAIN ids : Fails(i)
        THEN CHOOSE i \in DOMAIN ids : Fails(i) /\ \A j \in 1..(i - 1) : ~Fails(j)
        ELSE Len(ids) + 1

\* C28: bulk_update and bulk_delete work through the ids in list order and
\* stop at the first id that fails: the call raises exactly when an id fails,
\* the operation is committed for every id before the failing one and applied
\* to no id from the failing one on.
C28_BulkStopsAtFirstFailure ==
    req.op \in {"bulk_update", "bulk_delete"}
    => LET ids == req.todo_ids
           applied == {ids[j] : j \in 1..(FirstFailing - 1)}
       IN  /\ res.raised <=> FirstFailing <= Len(ids)
           /\ IF req.op = "bulk_delete"
              THEN /\ DOMAIN todos = DOMAIN req.before \ applied
                   /\ \A id \in DOMAIN todos : todos[id] = req.before[id]
              ELSE /\ DOMAIN todos = DOMAIN req.before
                   /\ \A id \in DOMAIN todos :
                         todos[id] = IF id \in applied
                                     THEN UpdatedTodo(req.before[id], req.updates, now)
                                     ELSE req.before[id]

\* A bulk_update raised at its second id after it had changed the first.
C28_Witness ==
    /\ req.op = "bulk_update"
    /\ res.raised
    /\ Len(req.todo_ids) = 2
    /\ req.todo_ids[1] \in DOMAIN todos
    /\ todos[req.todo_ids[1]] # req.before[req.todo_ids[1]]

------------------------------------------------------------------------------
(* Properties of the toggle (SpecToggle) *)

\* C29: when k toggle requests on the same task have all completed, in
\* whatever interleaving, the completed flag is the initial flag flipped k
\* times: two toggles leave it as it was.
C29_TogglesAllCount ==
    (req # <<>> /\ \A r \in DOMAIN req : req[r].pc = "done")
    => (todos[ToggledId].completed = coll[1].completed) <=> (Len(req) % 2 = 0)

------------------------------------------------------------------------------
(* Properties of the categories (SpecCategory) *)

\* The call of session s ends in this step.
Finishes(s) == req[s] # Idle /\ req'[s] = Idle

\* C30: after any sequence and interleaving of create_category and
\* update_category calls no two stored categories have the same name and no
\* stored name is empty or blank; a call given an empty or blank name fails,
\* and a call that fails leaves the stored categories as they were.
C30_CategoryNamesUniqueAndNonEmpty ==
    [][/\ \A i, j \in DOMAIN coll' : i # j => coll'[i].name # coll'[j].name
       /\ \A i \in DOMAIN coll' : coll'[i].name.word # ""
       /\ \A s \in DOMAIN req :
             Finishes(s)
             => /\ res'.raised => coll' = coll
                /\ LET call == req[s].call
                       given == IF call.op = "create_category" THEN Arg(call.name)
                                ELSE call.data.name
                   IN  (given.has /\ given.v.word = "") => res'.raised]_vars

\* An update_category naming a stored category and a non-blank name was
\* refused: the name was taken by another category.
C30_Witness ==
    /\ res # <<>>
    /\ res.raised
    /\ res.call.op = "update_category"
    /\ DOMAIN coll = 1..MaxCategories
    /\ res.call.data.name.has
    /\ res.call.data.name.v.word # ""

==============================================================================
